---- MODULE Spec2Model ----
(***************************************************************************)
(* Model of connect_prod.py: a linear script that opens an SSH session to  *)
(* a bastion (client1), a direct-tcpip channel through it, a second SSH    *)
(* session over the channel (client2), runs five commands on client2,      *)
(* prints their standard output, closes client2 then client1, and prints   *)
(* "Done".  The whole function runs under one generic exception handler    *)
(* that prints the exception's message and exits with status 1.            *)
(*                                                                         *)
(* The SSH library is the environment: each blocking call either returns   *)
(* or raises one of the exceptions the library raises at that call.        *)
(***************************************************************************)
EXTENDS Integers, Sequences, FiniteSets, TLC

VARIABLES
    pc,          \* statement the script is at
    cmd,         \* index of the command being issued / read (1..NumCommands)
    client1,     \* bastion session: "unopened" | "open" | "closed"
    channel,     \* forwarded direct-tcpip channel: same values
    client2,     \* internal session: same values
    calls,       \* library calls the script has made, in order
    opened,      \* resources opened, in order of opening
    closeCalls,  \* close() calls made by the script, in order
    issued,      \* commands exec_command was called with, in order
    results,     \* what the script printed for each command read, in order
    last,        \* what the remote produced for the last command read
    failed,      \* indices of commands that failed at command level
    exc,         \* the exception in flight / caught ([kind, phase])
    donePrinted, \* "Done" line printed
    errors,      \* error lines printed by the handler, in order
    exitStatus   \* Running while the process runs, then 0 or 1

vars == <<pc, cmd, client1, channel, client2, calls, opened, closeCalls, issued,
          results, last, failed, exc, donePrinted, errors, exitStatus>>

----------------------------------------------------------------------------
(* The five commands, in the order of the script. *)
Commands ==
    <<"pwd",
      "cd ~/stargety-oasis && ls -lah",
      "docker ps -a",
      "cd ~/stargety-oasis && docker-compose --profile production ps",
      "cd ~/stargety-oasis && docker-compose logs stargety-oasis --tail=50">>

NumCommands == Len(Commands)

(* Bytes a command may write to its standard output, by kind:              *)
(*   "empty"   no byte;  "blank"  whitespace only;  "text"  printable text *)
(*   "invalid" bytes that are not valid UTF-8.                             *)
StdoutKinds == {"empty", "blank", "text", "invalid"}
StderrKinds == {"empty", "text"}
ExitStatuses == {0, 1, 127}

(* The process has not exited yet. *)
Running == -1

NoOutcome == [stdout |-> "none", stderr |-> "none", exit |-> -1]
NoExc == [kind |-> "none", phase |-> "none"]

(* Exceptions the library raises at each call of the script. *)
Raises(call) ==
    CASE call = "connect1"     -> {"AuthenticationFailed", "NetworkError"}
      [] call = "open_channel" -> {"ChannelRefused", "SessionNotActive"}
      [] call = "connect2"     -> {"AuthenticationFailed", "SessionNotActive"}
      [] call = "exec_command" -> {"SessionNotActive"}
      [] call = "read"         -> {"SessionNotActive"}
      [] call = "decode"       -> {"UnicodeDecodeError"}

(* bytes.decode(): strict UTF-8. *)
DecodeOk(out) == out # "invalid"

(* str.strip() of the decoded output. *)
Strip(out) == IF out = "blank" THEN "empty" ELSE out

(* What the script prints for command i whose decoded output is out. *)
Render(i, out) ==
    CASE i \in {1, 2} -> out
      [] i = 3 -> IF Strip(out) # "empty" THEN out ELSE "No containers found"
      [] i = 4 -> IF Strip(out) # "empty" THEN out ELSE "No services found"
      [] i = 5 -> IF Strip(out) # "empty" THEN out
                  ELSE "No logs available - containers may not be running"

(* The line the handler prints: the exception's message only. *)
ErrorLine(e) == e.kind

(* An exception leaves connect_and_execute: control goes to the handler. *)
Raise(kind, phase) ==
    /\ exc' = [kind |-> kind, phase |-> phase]
    /\ pc' = "handler"

----------------------------------------------------------------------------
Init ==
    /\ pc = "connect1"
    /\ cmd = 1
    /\ client1 = "unopened"
    /\ channel = "unopened"
    /\ client2 = "unopened"
    /\ calls = <<>>
    /\ opened = <<>>
    /\ closeCalls = <<>>
    /\ issued = <<>>
    /\ results = <<>>
    /\ last = NoOutcome
    /\ failed = {}
    /\ exc = NoExc
    /\ donePrinted = FALSE
    /\ errors = <<>>
    /\ exitStatus = Running

(* Variant of Connect1: a failure of the bastion hop is recorded but the   *)
(* script goes on to request the forward.                                  *)
Connect1ContinuesOnFailure ==
    /\ pc = "connect1"
    /\ calls' = Append(calls, "connect1")
    /\ \/ /\ client1' = "open"
          /\ opened' = Append(opened, "client1")
          /\ UNCHANGED exc
       \/ /\ \E k \in Raises("connect1") :
                exc' = [kind |-> k, phase |-> "bastion"]
          /\ UNCHANGED <<client1, opened>>
    /\ pc' = "open_channel"
    /\ UNCHANGED <<cmd, channel, client2, closeCalls, issued, results, last,
                   failed, donePrinted, errors, exitStatus>>

(* client1.connect(...) *)
Connect1 ==
    /\ pc = "connect1"
    /\ calls' = Append(calls, "connect1")
    /\ \/ /\ client1' = "open"
          /\ opened' = Append(opened, "client1")
          /\ pc' = "open_channel"
          /\ UNCHANGED exc
       \/ /\ \E k \in Raises("connect1") : Raise(k, "bastion")
          /\ UNCHANGED <<client1, opened>>
    /\ UNCHANGED <<cmd, channel, client2, closeCalls, issued, results, last,
                   failed, donePrinted, errors, exitStatus>>

(* transport.open_channel('direct-tcpip', ...) *)
OpenChannel ==
    /\ pc = "open_channel"
    /\ calls' = Append(calls, "open_channel")
    /\ \/ /\ channel' = "open"
          /\ opened' = Append(opened, "channel")
          /\ pc' = "connect2"
          /\ UNCHANGED exc
       \/ /\ \E k \in Raises("open_channel") : Raise(k, "forward")
          /\ UNCHANGED <<channel, opened>>
    /\ UNCHANGED <<cmd, client1, client2, closeCalls, issued, results, last,
                   failed, donePrinted, errors, exitStatus>>

(* client2.connect(..., sock=channel) *)
Connect2 ==
    /\ pc = "connect2"
    /\ calls' = Append(calls, "connect2")
    /\ \/ /\ client2' = "open"
          /\ opened' = Append(opened, "client2")
          /\ pc' = "exec_command"
          /\ UNCHANGED exc
       \/ /\ \E k \in Raises("connect2") : Raise(k, "internal")
          /\ UNCHANGED <<client2, opened>>
    /\ UNCHANGED <<cmd, client1, channel, closeCalls, issued, results, last,
                   failed, donePrinted, errors, exitStatus>>

(* client2.exec_command(Commands[cmd]) *)
ExecCommand ==
    /\ pc = "exec_command"
    /\ calls' = Append(calls, "exec_command")
    /\ issued' = Append(issued, Commands[cmd])
    /\ \/ /\ pc' = "read"
          /\ UNCHANGED exc
       \/ \E k \in Raises("exec_command") : Raise(k, "command")
    /\ UNCHANGED <<cmd, client1, channel, client2, opened, closeCalls,
                   results, last, failed, donePrinted, errors, exitStatus>>

(* Variant of ReadOutput: an exception raised by read() is recorded, the   *)
(* command is skipped and the script goes on with the next command.        *)
ReadOutputContinuesOnError ==
    /\ pc = "read"
    /\ calls' = Append(calls, "read")
    /\ \/ \E out \in StdoutKinds, err \in StderrKinds, st \in ExitStatuses :
            IF DecodeOk(out)
            THEN /\ results' = Append(results,
                        [command |-> Commands[cmd], text |-> Render(cmd, out)])
                 /\ last' = [stdout |-> out, stderr |-> err, exit |-> st]
                 /\ failed' = IF st # 0 THEN failed \cup {cmd} ELSE failed
                 /\ IF cmd < NumCommands
                    THEN cmd' = cmd + 1 /\ pc' = "exec_command"
                    ELSE cmd' = cmd /\ pc' = "close2"
                 /\ UNCHANGED exc
            ELSE /\ \E k \in Raises("decode") : Raise(k, "command")
                 /\ failed' = failed \cup {cmd}
                 /\ UNCHANGED <<results, last, cmd>>
       \/ /\ \E k \in Raises("read") :
                exc' = [kind |-> k, phase |-> "command"]
          /\ IF cmd < NumCommands
             THEN cmd' = cmd + 1 /\ pc' = "exec_command"
             ELSE cmd' = cmd /\ pc' = "handler"
          /\ UNCHANGED <<results, last, failed>>
    /\ UNCHANGED <<client1, channel, client2, opened, closeCalls, issued,
                   donePrinted, errors, exitStatus>>

(* stdout.read().decode() and the print of the result. *)
ReadOutput ==
    /\ pc = "read"
    /\ calls' = Append(calls, "read")
    /\ \/ \E out \in StdoutKinds, err \in StderrKinds, st \in ExitStatuses :
            IF DecodeOk(out)
            THEN /\ results' = Append(results,
                        [command |-> Commands[cmd], text |-> Render(cmd, out)])
                 /\ last' = [stdout |-> out, stderr |-> err, exit |-> st]
                 /\ failed' = IF st # 0 THEN failed \cup {cmd} ELSE failed
                 /\ IF cmd < NumCommands
                    THEN cmd' = cmd + 1 /\ pc' = "exec_command"
                    ELSE cmd' = cmd /\ pc' = "close2"
                 /\ UNCHANGED exc
            ELSE /\ \E k \in Raises("decode") : Raise(k, "command")
                 /\ failed' = failed \cup {cmd}
                 /\ UNCHANGED <<results, last, cmd>>
       \/ /\ \E k \in Raises("read") : Raise(k, "command")
          /\ UNCHANGED <<results, last, failed, cmd>>
    /\ UNCHANGED <<client1, channel, client2, opened, closeCalls, issued,
                   donePrinted, errors, exitStatus>>

(* Variant of Client2Close: the two close statements are swapped, so the   *)
(* first one closes the bastion session.                                   *)
Client1ClosedFirst ==
    /\ pc = "close2"
    /\ calls' = Append(calls, "close1")
    /\ client1' = "closed"
    /\ channel' = "closed"
    /\ closeCalls' = Append(closeCalls, "client1")
    /\ pc' = "close1"
    /\ UNCHANGED <<cmd, client2, opened, issued, results, last, failed, exc,
                   donePrinted, errors, exitStatus>>

(* client2.close(): closes the internal session and the channel under it. *)
Client2Close ==
    /\ pc = "close2"
    /\ calls' = Append(calls, "close2")
    /\ client2' = "closed"
    /\ channel' = "closed"
    /\ closeCalls' = Append(closeCalls, "client2")
    /\ pc' = "close1"
    /\ UNCHANGED <<cmd, client1, opened, issued, results, last, failed, exc,
                   donePrinted, errors, exitStatus>>

(* client1.close(): closes the bastion session and every channel on it. *)
Client1Close ==
    /\ pc = "close1"
    /\ calls' = Append(calls, "close1")
    /\ client1' = "closed"
    /\ channel' = IF channel = "open" THEN "closed" ELSE channel
    /\ closeCalls' = Append(closeCalls, "client1")
    /\ pc' = "print_done"
    /\ UNCHANGED <<cmd, client2, opened, issued, results, last, failed, exc,
                   donePrinted, errors, exitStatus>>

(* print("Done"); the function returns and the process ends normally. *)
PrintDone ==
    /\ pc = "print_done"
    /\ donePrinted' = TRUE
    /\ exitStatus' = 0
    /\ pc' = "done"
    /\ UNCHANGED <<calls, cmd, client1, channel, client2, opened, closeCalls, issued,
                   results, last, failed, exc, errors>>

(* Variant of Handler: the error line is printed but sys.exit(1) is        *)
(* missing, so the process ends with status 0.                             *)
HandlerWithoutExit ==
    /\ pc = "handler"
    /\ errors' = Append(errors, ErrorLine(exc))
    /\ exitStatus' = 0
    /\ pc' = "exit1"
    /\ UNCHANGED <<calls, cmd, client1, channel, client2, opened, closeCalls,
                   issued, results, last, failed, exc, donePrinted>>

(* except Exception as e: print the error line; sys.exit(1). *)
Handler ==
    /\ pc = "handler"
    /\ errors' = Append(errors, ErrorLine(exc))
    /\ exitStatus' = 1
    /\ pc' = "exit1"
    /\ UNCHANGED <<calls, cmd, client1, channel, client2, opened, closeCalls, issued,
                   results, last, failed, exc, donePrinted>>

Next ==
    \/ Connect1
    \/ OpenChannel
    \/ Connect2
    \/ ExecCommand
    \/ ReadOutput
    \/ Client2Close
    \/ Client1Close
    \/ PrintDone
    \/ Handler

Spec == Init /\ [][Next]_vars

(* Every blocking call eventually returns or raises. *)
FairSpec == Spec /\ WF_vars(Next)

----------------------------------------------------------------------------
Terminal == {"done", "exit1"}

ResourceState(r) ==
    CASE r = "client1" -> client1
      [] r = "channel" -> channel
      [] r = "client2" -> client2

Opened(r) == \E k \in 1..Len(opened) : opened[k] = r
CloseCalled(r) == \E k \in 1..Len(closeCalls) : closeCalls[k] = r

IsPrefix(s, t) ==
    /\ Len(s) <= Len(t)
    /\ \A k \in 1..Len(s) : s[k] = t[k]

TypeOK ==
    /\ pc \in {"connect1", "open_channel", "connect2", "exec_command", "read",
               "close2", "close1", "print_done", "handler", "done", "exit1"}
    /\ cmd \in 1..NumCommands
    /\ {client1, channel, client2} \subseteq {"unopened", "open", "closed"}
    /\ failed \subseteq 1..NumCommands
    /\ donePrinted \in BOOLEAN
    /\ exitStatus \in {Running, 0, 1}

----------------------------------------------------------------------------
CallNames == {"connect1", "open_channel", "connect2", "exec_command", "read",
              "decode"}

(* The phase of the run a library call belongs to. *)
PhaseOf(call) ==
    CASE call = "connect1"     -> "bastion"
      [] call = "open_channel" -> "forward"
      [] call = "connect2"     -> "internal"
      [] OTHER                 -> "command"

(* The internal session became unusable while a command was issued or read. *)
SessionLost == exc.phase = "command" /\ exc.kind = "SessionNotActive"

ResultCommands == [k \in 1..Len(results) |-> results[k].command]

----------------------------------------------------------------------------
(* C1: in every terminal state, every session that was opened has been     *)
(* closed by the script, the internal session before the bastion session.  *)
C1_OpenedSessionsClosedAtExit ==
    pc \in Terminal =>
        /\ \A r \in {"client1", "client2"} : Opened(r) => CloseCalled(r)
        /\ \A j \in 1..Len(closeCalls) :
              closeCalls[j] = "client1" /\ Opened("client2") =>
                  \E k \in 1..(j - 1) : closeCalls[k] = "client2"

(* C2: when the forward or the internal authentication fails, no command   *)
(* is executed and the bastion session and the channel, if opened, are     *)
(* released by the time the process ends.                                  *)
C2_SetupFailureReleasesPartial ==
    (pc \in Terminal /\ exc.phase \in {"forward", "internal"}) =>
        /\ issued = <<>>
        /\ \A r \in {"client1", "channel"} :
              Opened(r) => ResourceState(r) = "closed"

(* C3: the internal session is open only while the bastion session is      *)
(* open; close(client2) always precedes close(client1); no command is      *)
(* issued once the bastion session is closed.                              *)
C3_InnerNeverOutlivesOuter ==
    /\ [](client2 = "open" => client1 = "open")
    /\ [](\A j \in 1..Len(closeCalls) :
              closeCalls[j] = "client1" =>
                  \E k \in 1..(j - 1) : closeCalls[k] = "client2")
    /\ [][client1 = "closed" => issued' = issued]_vars

C3_Witness ==
    /\ closeCalls = <<"client2", "client1">>
    /\ client1 = "closed"
    /\ client2 = "closed"

(* C4: when the bastion hop fails, connect1 is the only library call ever  *)
(* made: no forward is requested, no internal session attempted, no        *)
(* command executed, and close calls equal resources opened.               *)
C4_BastionFailureStopsEverything ==
    exc.phase = "bastion" =>
        /\ calls = <<"connect1">>
        /\ issued = <<>>
        /\ channel = "unopened"
        /\ client2 = "unopened"
        /\ Len(closeCalls) = Len(opened)

C4_Witness ==
    /\ pc = "exit1"
    /\ exc.phase = "bastion"
    /\ errors # <<>>

(* C5: a command-level failure (non-zero exit status, or an error reading  *)
(* the output while the session is intact) never halts the sequence: the   *)
(* run ends with all five commands issued.                                 *)
C5_CommandFailureNeverHalts ==
    (pc \in Terminal /\ failed # {} /\ ~SessionLost) => issued = Commands

(* C6: commands are issued in the fixed order, one at a time, the next     *)
(* only after the previous was read; the results are a prefix of the       *)
(* command sequence, one per command attempted, and are the full sequence  *)
(* at the end of a run that reached the commands unless the session was    *)
(* lost.                                                                   *)
C6_OneResultPerCommandInOrder ==
    /\ IsPrefix(issued, Commands)
    /\ IsPrefix(ResultCommands, Commands)
    /\ Len(results) <= Len(issued)
    /\ Len(issued) <= Len(results) + 1
    /\ (pc \in Terminal /\ ~SessionLost) => Len(results) = Len(issued)
    /\ (pc \in Terminal /\ Opened("client2") /\ ~SessionLost) =>
           ResultCommands = Commands

(* C7: once the internal session is lost at command i, no further command  *)
(* is issued, exactly one error line ends the run, and the results of      *)
(* commands 1..i-1 stay reported; reported results are never retracted.    *)
C7_SessionLossStopsAndKeepsResults ==
    /\ [](SessionLost =>
            /\ Len(issued) = cmd
            /\ ResultCommands = SubSeq(Commands, 1, cmd - 1)
            /\ Len(errors) <= 1
            /\ (pc \in Terminal => pc = "exit1" /\ Len(errors) = 1))
    /\ [][SessionLost => issued' = issued /\ results' = results]_vars
    /\ [][IsPrefix(results, results')]_vars

C7_Witness ==
    /\ pc = "exit1"
    /\ SessionLost
    /\ cmd = 3
    /\ Len(results) = 2
    /\ Len(errors) = 1

(* C8: the reported result of a command carries its exit status and        *)
(* stderr: a command that exits non-zero is reported differently from a    *)
(* command that succeeded with empty stdout.                               *)
C8_NonZeroExitDistinguishable ==
    (last # NoOutcome /\ last.exit # 0) =>
        results[Len(results)].text # Render(Len(results), "empty")

(* C9: the error line reported for a failed run identifies the phase that  *)
(* failed: no failure in another phase produces the same line.             *)
C9_ErrorIdentifiesPhase ==
    pc = "exit1" =>
        \A c \in CallNames :
            PhaseOf(c) # exc.phase =>
                \A k \in Raises(c) :
                    ErrorLine([kind |-> k, phase |-> PhaseOf(c)])
                        # errors[Len(errors)]

(* C10: every run terminates, either with "Done" printed and status 0      *)
(* (only after both hops, all five commands issued and read, and close of  *)
(* client2 then client1), or with exactly one error line and status 1      *)
(* (exactly when some step raised); never both.                            *)
C10_TwoOutcomes ==
    /\ <>(pc \in Terminal)
    /\ [](~(donePrinted /\ errors # <<>>))
    /\ [](Len(errors) <= 1)
    /\ [](donePrinted =>
            /\ Opened("client1") /\ Opened("client2")
            /\ issued = Commands
            /\ ResultCommands = Commands
            /\ closeCalls = <<"client2", "client1">>)
    /\ [](pc = "done" => donePrinted /\ exitStatus = 0 /\ exc = NoExc)
    /\ [](pc = "exit1" => Len(errors) = 1 /\ exitStatus = 1 /\ exc # NoExc)
    /\ [](pc \in Terminal /\ exc # NoExc => pc = "exit1")
    /\ [](pc \notin Terminal => exitStatus = Running /\ ~donePrinted)

C10_Witness ==
    /\ pc = "done"
    /\ donePrinted
    /\ exitStatus = 0
    /\ Len(results) = NumCommands

====
